---- MODULE Spec2Model ----
(***************************************************************************)
(* A model of app.py, the ArXiv Paper Extractor: the identifier parser,    *)
(* the PDF text extractor, the parse step of the analysis requester, the   *)
(* presenter, and the Streamlit script that ties them together through     *)
(* st.session_state.                                                       *)
(*                                                                         *)
(* Text is a sequence of one-character strings.  A Python value that may   *)
(* be None is a record [isNone, val].                                      *)
(***************************************************************************)
EXTENDS Integers, Sequences, FiniteSets, TLC

VARIABLES
    \* --- extract_arxiv_id applied to one input -------------------------
    url,              \* the argument of extract_arxiv_id
    id_out,           \* [done, ret]: its return value once it has run
    \* --- extract_text_from_pdf applied to one document ------------------
    pdf_in,           \* the argument of extract_text_from_pdf
    text_out,         \* [done, ret, msgs]
    \* --- the parse step and display_analysis applied to one reply -------
    response_text,    \* message.content[0].text
    parse_out,        \* [done, ret, msgs]: what analyze_paper_with_ai returned
    display_out,      \* [done, shown]: what display_analysis wrote
    \* --- the Streamlit script ---------------------------------------------
    session_state,    \* st.session_state: a function on the keys present
    arxiv_input,      \* the text_input widget of tab 1
    uploaded_file,    \* the file_uploader widget of tab 2 ([isNone, val])
    api_key,          \* the sidebar text_input
    now,              \* datetime.now(), in whole seconds
    run,              \* what the last script run did (see ScriptRun)
    analysis_of       \* history: the source_info of the document the stored
                      \* analysis was computed from, and when (lines 228-238)

vars == << url, id_out, pdf_in, text_out, response_text, parse_out, display_out,
           session_state, arxiv_input, uploaded_file, api_key, now, run,
           analysis_of >>

idVars     == << url, id_out >>
pdfVars    == << pdf_in, text_out >>
parseVars  == << response_text, parse_out, display_out >>
scriptVars == << session_state, arxiv_input, uploaded_file, api_key, now, run,
                analysis_of >>

(***************************************************************************)
(* Bounds of the model.                                                    *)
(***************************************************************************)
MaxTail  == 3     \* characters after the URL prefix / of a bare input
MaxPages == 3     \* pages of a PDF
MaxReply == 4     \* lexical items of an LLM reply
MaxRuns  == 5     \* script runs (user actions) in one session

(***************************************************************************)
(* Python values and text helpers.                                         *)
(***************************************************************************)
None      == [isNone |-> TRUE,  val |-> << >>]
Some(v)   == [isNone |-> FALSE, val |-> v]

RECURSIVE SeqsUpTo(_, _)
SeqsUpTo(S, n) ==
    IF n = 0 THEN { << >> }
    ELSE LET shorter == SeqsUpTo(S, n - 1)
         IN  shorter \cup { Append(s, c) : s \in shorter, c \in S }

(***************************************************************************)
(* extract_arxiv_id (app.py 29-41) and the part of re.search it uses.      *)
(***************************************************************************)
Digits == { "0", "1", "2", "3", "4", "5", "6", "7", "8", "9" }

\* The three patterns of lines 32-34: the text before the group, as regex
\* items.  An unescaped "." is the regex wildcard.
patterns ==
    << [lit |-> << "a","r","x","i","v",".","o","r","g","/","a","b","s","/" >>,
        anchored |-> FALSE],
       [lit |-> << "a","r","x","i","v",".","o","r","g","/","p","d","f","/" >>,
        anchored |-> FALSE],
       [lit |-> << >>, anchored |-> TRUE] >>

\* One regex item against one character: "." matches any character except
\* a newline (no DOTALL flag); any other item matches itself.
RegexItemMatches(item, c) ==
    IF item = "." THEN c # "\n" ELSE item = c

\* The length of the longest run of \d starting at position i of s.
RECURSIVE DigitRun(_, _)
DigitRun(s, i) ==
    IF i <= Len(s) /\ s[i] \in Digits THEN 1 + DigitRun(s, i + 1) ELSE 0

\* The position after (\d+\.\d+) matched greedily from position i, or 0.
\* Backtracking finds nothing more: giving up a digit leaves a digit where
\* "\." (or the end) is required.
GroupEnd(s, i) ==
    LET n1 == DigitRun(s, i)
        n2 == DigitRun(s, i + n1 + 1)
    IN  IF n1 >= 1 /\ i + n1 <= Len(s) /\ s[i + n1] = "." /\ n2 >= 1
        THEN i + n1 + 1 + n2
        ELSE 0

LitMatchesAt(lit, s, i) ==
    /\ i + Len(lit) - 1 <= Len(s)
    /\ \A k \in 1..Len(lit) : RegexItemMatches(lit[k], s[i + k - 1])

\* "$" without MULTILINE: the end of the string, or just before a newline
\* that is the last character.
AtDollar(s, e) ==
    \/ e = Len(s)
    \/ e = Len(s) - 1 /\ s[Len(s)] = "\n"

\* Whether pattern p matches s starting at position i.
MatchesAt(p, s, i) ==
    /\ IF p.anchored THEN i = 1 ELSE TRUE
    /\ LitMatchesAt(p.lit, s, i)
    /\ GroupEnd(s, i + Len(p.lit)) # 0
    /\ IF p.anchored THEN AtDollar(s, GroupEnd(s, i + Len(p.lit)) - 1) ELSE TRUE

\* re.search(pattern, s): the leftmost match; its group(1), or None.
re_search(p, s) ==
    LET starts == { i \in 1..Len(s) : MatchesAt(p, s, i) }
    IN  IF starts = {} THEN None
        ELSE LET i == CHOOSE j \in starts : \A k \in starts : j <= k
                 g == i + Len(p.lit)
             IN  Some(SubSeq(s, g, GroupEnd(s, g) - 1))

\* for pattern in patterns: ... return match.group(1); return None
RECURSIVE FirstMatchFrom(_, _)
FirstMatchFrom(k, s) ==
    IF k > Len(patterns) THEN None
    ELSE LET match == re_search(patterns[k], s)
         IN  IF ~match.isNone THEN match ELSE FirstMatchFrom(k + 1, s)

extract_arxiv_id(s) == FirstMatchFrom(1, s)

(***************************************************************************)
(* st.info / st.warning / st.error / st.success: one message of a run.     *)
(***************************************************************************)
Message(level, text) == [level |-> level, text |-> text]

(***************************************************************************)
(* extract_text_from_pdf (app.py 55-68).  A PDF is [valid, pages]; a page  *)
(* is [ok, text]: PdfReader raises on a stream that is not a PDF, and      *)
(* page.extract_text() raises on a page with ok = FALSE.                   *)
(***************************************************************************)
\* Variant of AppendPage: the newline after the page text is left out.
AppendPageNoNewline(text, page) == text \o page.text

\* line 63: text += page.extract_text() + "\n"
AppendPage(text, page) == text \o page.text \o << "\n" >>

\* lines 62-63: the loop over pdf_reader.pages, from page k on.
RECURSIVE PageLoop(_, _, _)
PageLoop(pages, k, text) ==
    IF k > Len(pages) THEN [raised |-> FALSE, text |-> text]
    ELSE IF ~pages[k].ok THEN [raised |-> TRUE, text |-> text]
    ELSE PageLoop(pages, k + 1, AppendPage(text, pages[k]))

\* Variant of extract_text_from_pdf: on a failure it reports the error but
\* returns the text accumulated so far.
extract_text_from_pdf_partial(pdf_file) ==
    LET body == IF ~pdf_file.valid
                THEN [raised |-> TRUE, text |-> << >>]
                ELSE PageLoop(pdf_file.pages, 1, << >>)
    IN  [ret  |-> Some(body.text),
         msgs |-> IF body.raised
                  THEN << Message("error", "Error extracting text from PDF") >>
                  ELSE << >>]

\* The whole function: [ret, msgs], the return value and what it reported.
extract_text_from_pdf(pdf_file) ==
    LET body == IF ~pdf_file.valid
                THEN [raised |-> TRUE, text |-> << >>]
                ELSE PageLoop(pdf_file.pages, 1, << >>)
    IN  IF body.raised
        THEN [ret  |-> None,
              msgs |-> << Message("error", "Error extracting text from PDF") >>]
        ELSE [ret |-> Some(body.text), msgs |-> << >>]

(***************************************************************************)
(* The parse step of analyze_paper_with_ai (app.py 114-126).  A reply is a *)
(* sequence of lexical items: "{" and "}", "x" (prose without braces), and *)
(* three member lists, each the text of comma-separated "key": "value"     *)
(* pairs: "F" (the seven keys), "P" (two of them), "E" (the seven and one  *)
(* more).  A dict is a function on its keys.                               *)
(***************************************************************************)
SevenKeys ==
    << "background", "objectives_and_hypothesis", "methodology",
       "results_and_findings", "discussion_and_interpretation",
       "contributions", "achievements_and_significance" >>

KeySet(keys) == { keys[i] : i \in DOMAIN keys }

Members(item) ==
    CASE item = "F" -> [k \in KeySet(SevenKeys) |-> << "v", k >>]
      [] item = "P" -> [k \in { "background", "methodology" } |-> << "v", k >>]
      [] item = "E" -> [k \in KeySet(SevenKeys) \cup { "extra" } |-> << "v", k >>]

MemberItems == { "F", "P", "E" }

\* json.loads on a text that starts with "{": [ok, val]; ok = FALSE is
\* JSONDecodeError.
json_loads(text) ==
    IF text = << "{", "}" >> THEN [ok |-> TRUE, val |-> << >>]
    ELSE IF Len(text) = 3 /\ text[1] = "{" /\ text[3] = "}" /\ text[2] \in MemberItems
         THEN [ok |-> TRUE, val |-> Members(text[2])]
         ELSE [ok |-> FALSE, val |-> << >>]

\* line 117: re.search(r'\{[\s\S]*\}', response_text).group(), or None:
\* from the leftmost "{" that has a "}" after it, greedily to the last "}".
json_match(text) ==
    LET opens  == { i \in 1..Len(text) : text[i] = "{" }
        starts == { i \in opens : \E j \in i + 1..Len(text) : text[j] = "}" }
    IN  IF starts = {} THEN None
        ELSE LET i == CHOOSE a \in starts : \A b \in starts : a <= b
                 closes == { j \in i + 1..Len(text) : text[j] = "}" }
                 j == CHOOSE a \in closes : \A b \in closes : a >= b
             IN  Some(SubSeq(text, i, j))

raw_analysis(text) == [k \in { "raw_analysis" } |-> text]

\* Variant of parse_reply: the fallback keeps the matched text, not the reply.
parse_reply_raw_of_match(text) ==
    LET m == json_match(text)
    IN  IF ~m.isNone
        THEN LET decoded == json_loads(m.val)
             IN  IF decoded.ok THEN decoded.val ELSE raw_analysis(m.val)
        ELSE raw_analysis(text)

\* lines 115-126: the dict the function returns for a reply.
parse_reply(text) ==
    LET m == json_match(text)
    IN  IF ~m.isNone
        THEN LET decoded == json_loads(m.val)
             IN  IF decoded.ok THEN decoded.val ELSE raw_analysis(text)
        ELSE raw_analysis(text)

(***************************************************************************)
(* display_analysis (app.py 132-151): the subheader and the text written   *)
(* for each section, in order.                                             *)
(***************************************************************************)
sections ==
    << [title |-> "Background of the Study", key |-> "background"],
       [title |-> "Research Objectives and Hypothesis", key |-> "objectives_and_hypothesis"],
       [title |-> "Methodology", key |-> "methodology"],
       [title |-> "Results and Findings", key |-> "results_and_findings"],
       [title |-> "Discussion and Interpretation", key |-> "discussion_and_interpretation"],
       [title |-> "Contributions to the Field", key |-> "contributions"],
       [title |-> "Achievements and Significance", key |-> "achievements_and_significance"] >>

NotAvailable == << "_Not available_" >>

\* Variant of display_section: the record is looked up by the section title.
display_section_by_title(analysis, sec) ==
    [subheader |-> sec.title,
     write     |-> IF sec.title \in DOMAIN analysis THEN analysis[sec.title]
                   ELSE NotAvailable]

\* lines 146-150: one section.
display_section(analysis, sec) ==
    [subheader |-> sec.title,
     write     |-> IF sec.key \in DOMAIN analysis THEN analysis[sec.key]
                   ELSE NotAvailable]

display_analysis(analysis) ==
    [i \in DOMAIN sections |-> display_section(analysis, sections[i])]

(***************************************************************************)
(* Truthiness of a Python value: None, "" and {} are falsy.                *)
(***************************************************************************)
Truthy(x) == ~x.isNone /\ DOMAIN x.val # {}

(***************************************************************************)
(* download_arxiv_pdf (app.py 43-53).  net is what requests.get and        *)
(* raise_for_status do: [ok, pdf].  Returns [ret, msgs]; the BytesIO it    *)
(* returns is a file [origin, name, pdf].                                  *)
(***************************************************************************)
\* Variant of download_arxiv_pdf: the exception is swallowed without st.error.
download_arxiv_pdf_silent(arxiv_id, net) ==
    IF net.ok
    THEN [ret  |-> Some([origin |-> "download", name |-> arxiv_id, pdf |-> net.pdf]),
          msgs |-> << >>]
    ELSE [ret |-> None, msgs |-> << >>]

download_arxiv_pdf(arxiv_id, net) ==
    IF net.ok
    THEN [ret  |-> Some([origin |-> "download", name |-> arxiv_id, pdf |-> net.pdf]),
          msgs |-> << >>]
    ELSE [ret  |-> None,
          msgs |-> << Message("error", "Error downloading PDF") >>]

(***************************************************************************)
(* analyze_paper_with_ai (app.py 70-130).  llm is what the Anthropic       *)
(* client does: [ok, text], ok = FALSE when it raises.  Returns            *)
(* [ret, msgs].                                                            *)
(***************************************************************************)
analyze_paper_with_ai(paper_text, key, llm) ==
    IF llm.ok
    THEN [ret |-> Some(parse_reply(llm.text)), msgs |-> << >>]
    ELSE [ret  |-> None,
          msgs |-> << Message("error", "Error analyzing paper") >>]

(***************************************************************************)
(* The script, top to bottom (app.py 153-269).  A run threads a context    *)
(* [ss, msgs, calls, stored]: the session state, the messages shown, the   *)
(* pipeline functions called with what each returned, and whether line 237 *)
(* ran.                                                                    *)
(***************************************************************************)
Put(ss, k, v) == (k :> v) @@ ss

Say(ctx, msgs) == [ctx EXCEPT !.msgs = @ \o msgs]

Called(ctx, fn, ret) == [ctx EXCEPT !.calls = Append(@, [fn |-> fn, ret |-> ret])]

ArxivSource(arxiv_id) == << "ArXiv ID: " >> \o arxiv_id
UploadSource(file)    == << "Uploaded: " >> \o file.name

\* lines 188-203: the "Download and Extract" button of tab 1.
Tab1(ctx, clicked, input, net) ==
    IF clicked # "arxiv_btn" THEN ctx
    ELSE IF input = << >>
    THEN Say(ctx, << Message("warning", "Please enter an ArXiv URL or ID") >>)
    ELSE LET arxiv_id == extract_arxiv_id(input)
         IN  IF Truthy(arxiv_id)
             THEN LET d  == download_arxiv_pdf(arxiv_id.val, net)
                      c1 == Say(ctx, << Message("info", "Downloading paper") >>)
                      c2 == Called(Say(c1, d.msgs), "download_arxiv_pdf", d.ret)
                  IN  IF ~d.ret.isNone
                      THEN Say([c2 EXCEPT !.ss =
                                   Put(Put(@, "pdf_file", d.ret.val),
                                       "source_info", ArxivSource(arxiv_id.val))],
                               << Message("success", "PDF downloaded successfully!") >>)
                      ELSE c2
             ELSE Say(ctx, << Message("error", "Invalid ArXiv URL or ID") >>)

\* lines 212-215: the file_uploader of tab 2.
Tab2(ctx, uploaded) ==
    IF ~uploaded.isNone
    THEN Say([ctx EXCEPT !.ss =
                 Put(Put(@, "pdf_file", uploaded.val),
                     "source_info", UploadSource(uploaded.val))],
             << Message("success", "PDF uploaded successfully!") >>)
    ELSE ctx

\* lines 227-239: the pipeline behind the "Extract Insights" button.
Pipeline(ctx, key, llm, t) ==
    LET x  == extract_text_from_pdf(ctx.ss["pdf_file"].pdf)
        c1 == Called(Say(ctx, x.msgs), "extract_text_from_pdf", x.ret)
    IN  IF Truthy(x.ret)
        THEN LET a  == analyze_paper_with_ai(x.ret.val, key, llm)
                 c2 == Called(Say(Say(c1, << Message("success", "Extracted characters from PDF") >>),
                                  a.msgs),
                              "analyze_paper_with_ai", a.ret)
             IN  IF Truthy(a.ret)
                 THEN Say([c2 EXCEPT
                              !.ss = Put(Put(@, "analysis", a.ret.val),
                                         "analysis_timestamp", t),
                              !.stored = TRUE],
                          << Message("success", "Analysis complete!") >>)
                 ELSE c2
        ELSE c1

\* lines 220-239.
ExtractSection(ctx, clicked, key, llm, t) ==
    IF "pdf_file" \in DOMAIN ctx.ss
    THEN LET c1 == Say(ctx, << Message("info", "source_info") >>)
         IN  IF clicked = "extract_btn"
             THEN IF key = << >>
                  THEN Say(c1, << Message("error", "Please provide an Anthropic API key in the sidebar") >>)
                  ELSE Pipeline(c1, key, llm, t)
             ELSE c1
    ELSE ctx

\* lines 255-259: the export payload.
download_data(ss) ==
    [source    |-> IF "source_info" \in DOMAIN ss THEN ss["source_info"]
                   ELSE << "Unknown" >>,
     timestamp |-> IF "analysis_timestamp" \in DOMAIN ss
                   THEN Some(ss["analysis_timestamp"]) ELSE None,
     analysis  |-> ss["analysis"]]

\* lines 242-269: what the results section shows, if anything.
Results(ss) ==
    IF "analysis" \in DOMAIN ss
    THEN Some([shown |-> display_analysis(ss["analysis"]),
               export |-> download_data(ss)])
    ELSE None

(***************************************************************************)
(* extract_arxiv_id on its own: every input of a bounded family.           *)
(***************************************************************************)
TailChars == { "1", "2", ".", "x", "\n" }
Tails     == SeqsUpTo(TailChars, MaxTail)

UrlText(pre, sep, kind, tail) ==
    pre \o << "a","r","x","i","v" >> \o << sep >> \o << "o","r","g","/" >>
        \o kind \o << "/" >> \o tail

UrlKinds == { << "a","b","s" >>, << "p","d","f" >>, << "a","b","x" >> }

IdInputs ==
    Tails
    \cup { UrlText(pre, sep, kind, tail) :
             pre \in { << >>, << "x" >> }, sep \in { ".", "x", "\n" },
             kind \in UrlKinds, tail \in Tails }
    \cup { UrlText(<< >>, ".", k1, t1) \o << " " >> \o UrlText(<< >>, ".", k2, t2) :
             k1 \in UrlKinds, k2 \in UrlKinds,
             t1 \in { << "1",".","2" >>, << "x" >> },
             t2 \in { << "2",".","1" >>, << "x" >> } }

IdIdle     == url = << >> /\ id_out = [done |-> FALSE, ret |-> None]

(***************************************************************************)
(* extract_text_from_pdf on its own: every PDF of a bounded family.        *)
(***************************************************************************)
PageTexts == { << >>, << "a" >>, << "b", "\n", "c" >> }
Pages     == { [ok |-> TRUE, text |-> t] : t \in PageTexts }
                 \cup { [ok |-> FALSE, text |-> << >>] }
Pdfs      == { [valid |-> TRUE, pages |-> ps] : ps \in SeqsUpTo(Pages, MaxPages) }
                 \cup { [valid |-> FALSE, pages |-> << >>] }

PdfIdle    == /\ pdf_in = [valid |-> FALSE, pages |-> << >>]
              /\ text_out = [done |-> FALSE, ret |-> None, msgs |-> << >>]

(***************************************************************************)
(* The parse step and display_analysis on their own: every reply of a      *)
(* bounded family.                                                         *)
(***************************************************************************)
ReplyItems == { "{", "}", "x" } \cup MemberItems
Replies    == SeqsUpTo(ReplyItems, MaxReply)

ParseIdle  == /\ response_text = << >>
              /\ parse_out = [done |-> FALSE, ret |-> None, msgs |-> << >>]
              /\ display_out = [done |-> FALSE, shown |-> << >>]

(***************************************************************************)
(* The session: what the user and the outside world can supply.            *)
(***************************************************************************)
GoodPdf == [valid |-> TRUE,
            pages |-> << [ok |-> TRUE, text |-> << "a" >>],
                         [ok |-> TRUE, text |-> << "b", "\n", "c" >>] >>]
ZeroPdf == [valid |-> TRUE, pages |-> << >>]
BadPdf  == [valid |-> FALSE, pages |-> << >>]
TornPdf == [valid |-> TRUE,
            pages |-> << [ok |-> TRUE, text |-> << "a" >>],
                         [ok |-> FALSE, text |-> << >>] >>]

Upload(name, pdf) == [origin |-> "upload", name |-> << name >>, pdf |-> pdf]

UploadChoices ==
    { Upload("a.pdf", GoodPdf), Upload("z.pdf", ZeroPdf),
      Upload("b.pdf", BadPdf), Upload("t.pdf", TornPdf) }

ArxivInputs ==
    { << >>, << "1", ".", "2" >>, << "x" >>,
      UrlText(<< "x" >>, ".", << "a","b","s" >>, << "2", ".", "1" >>) }

ApiKeys == { << >>, << "k" >> }

NetOutcomes ==
    { [ok |-> FALSE, pdf |-> BadPdf], [ok |-> TRUE, pdf |-> GoodPdf],
      [ok |-> TRUE, pdf |-> TornPdf] }

LlmOutcomes ==
    { [ok |-> FALSE, text |-> << >>] }
    \cup { [ok |-> TRUE, text |-> r] :
             r \in { << "{", "F", "}" >>, << "{", "}" >>, << "x" >>,
                     << "x", "{", "P", "}" >> } }

NoNet == [ok |-> FALSE, pdf |-> BadPdf]
NoLlm == [ok |-> FALSE, text |-> << >>]

\* The context a run starts with.
StartOfRun(ss) == [ss |-> ss, msgs |-> << >>, calls |-> << >>, stored |-> FALSE]

\* What a run leaves to look at: the button clicked, the messages shown, the
\* pipeline calls made, whether line 237 ran, and the results section.
EndOfRun(ctx, clicked) ==
    [clicked |-> clicked,
     msgs    |-> ctx.msgs,
     calls   |-> ctx.calls,
     stored  |-> ctx.stored,
     results |-> Results(ctx.ss)]

NoAnalysis == [source |-> << >>, time |-> 0]

ScriptIdle ==
    /\ session_state = << >>
    /\ arxiv_input = << >>
    /\ uploaded_file = None
    /\ api_key = << >>
    /\ now = 0
    /\ run = EndOfRun(StartOfRun(<< >>), "none")
    /\ analysis_of = NoAnalysis

(***************************************************************************)
(* Actions.                                                                *)
(***************************************************************************)
\* extract_arxiv_id(url)
ExtractArxivId ==
    /\ ~id_out.done
    /\ id_out' = [done |-> TRUE, ret |-> extract_arxiv_id(url)]
    /\ UNCHANGED << url, pdfVars, parseVars, scriptVars >>

\* extract_text_from_pdf(pdf_in)
ExtractTextFromPdf ==
    /\ ~text_out.done
    /\ LET x == extract_text_from_pdf(pdf_in)
       IN  text_out' = [done |-> TRUE, ret |-> x.ret, msgs |-> x.msgs]
    /\ UNCHANGED << pdf_in, idVars, parseVars, scriptVars >>

\* analyze_paper_with_ai when the client answers with response_text
ParseReply ==
    /\ ~parse_out.done
    /\ LET a == analyze_paper_with_ai(<< "t" >>, << "k" >>,
                                      [ok |-> TRUE, text |-> response_text])
       IN  parse_out' = [done |-> TRUE, ret |-> a.ret, msgs |-> a.msgs]
    /\ UNCHANGED << response_text, display_out, idVars, pdfVars, scriptVars >>

\* display_analysis on the record the parse step returned
DisplayAnalysis ==
    /\ parse_out.done
    /\ ~display_out.done
    /\ display_out' = [done |-> TRUE, shown |-> display_analysis(parse_out.ret.val)]
    /\ UNCHANGED << response_text, parse_out, idVars, pdfVars, scriptVars >>

\* A user action reruns the script, top to bottom, with the new widget
\* values: tab 1, tab 2, the Extract Insights section, the results section.
Rerun(clicked, input, uploaded, key, net, llm) ==
    /\ now < MaxRuns
    /\ now' = now + 1
    /\ arxiv_input' = input
    /\ uploaded_file' = uploaded
    /\ api_key' = key
    /\ \E c1 \in { Tab1(StartOfRun(session_state), clicked, input, net) } :
       \E c2 \in { Tab2(c1, uploaded) } :
       \E c3 \in { ExtractSection(c2, clicked, key, llm, now') } :
           /\ session_state' = c3.ss
           /\ run' = EndOfRun(c3, clicked)
           /\ analysis_of' =
                IF c3.stored
                THEN [source |-> c3.ss["source_info"], time |-> now']
                ELSE analysis_of
    /\ UNCHANGED << idVars, pdfVars, parseVars >>

EnterArxivInput ==
    \E s \in ArxivInputs :
        /\ s # arxiv_input
        /\ Rerun("none", s, uploaded_file, api_key, NoNet, NoLlm)

EnterApiKey ==
    \E k \in ApiKeys :
        /\ k # api_key
        /\ Rerun("none", arxiv_input, uploaded_file, k, NoNet, NoLlm)

UploadFile ==
    \E f \in UploadChoices :
        /\ Some(f) # uploaded_file
        /\ Rerun("none", arxiv_input, Some(f), api_key, NoNet, NoLlm)

RemoveUpload ==
    /\ ~uploaded_file.isNone
    /\ Rerun("none", arxiv_input, None, api_key, NoNet, NoLlm)

ClickDownloadAndExtract ==
    \E net \in NetOutcomes :
        Rerun("arxiv_btn", arxiv_input, uploaded_file, api_key, net, NoLlm)

ClickExtractInsights ==
    /\ "pdf_file" \in DOMAIN session_state
    /\ \E llm \in LlmOutcomes :
        Rerun("extract_btn", arxiv_input, uploaded_file, api_key, NoNet, llm)

ClickDownloadAsJson ==
    /\ "analysis" \in DOMAIN session_state
    /\ Rerun("none", arxiv_input, uploaded_file, api_key, NoNet, NoLlm)

(***************************************************************************)
(* Specifications.                                                         *)
(***************************************************************************)
InitId == url \in IdInputs /\ id_out = [done |-> FALSE, ret |-> None]
              /\ PdfIdle /\ ParseIdle /\ ScriptIdle
NextId == ExtractArxivId
SpecId == InitId /\ [][NextId]_vars

InitPdf == /\ pdf_in \in Pdfs
           /\ text_out = [done |-> FALSE, ret |-> None, msgs |-> << >>]
           /\ IdIdle /\ ParseIdle /\ ScriptIdle
NextPdf == ExtractTextFromPdf
SpecPdf == InitPdf /\ [][NextPdf]_vars

InitParse == /\ response_text \in Replies
             /\ parse_out = [done |-> FALSE, ret |-> None, msgs |-> << >>]
             /\ display_out = [done |-> FALSE, shown |-> << >>]
             /\ IdIdle /\ PdfIdle /\ ScriptIdle
NextParse == ParseReply \/ DisplayAnalysis
SpecParse == InitParse /\ [][NextParse]_vars

Init == /\ IdIdle /\ PdfIdle /\ ParseIdle
        /\ ScriptIdle
Next == \/ EnterArxivInput
        \/ EnterApiKey
        \/ UploadFile
        \/ RemoveUpload
        \/ ClickDownloadAndExtract
        \/ ClickExtractInsights
        \/ ClickDownloadAsJson
Spec == Init /\ [][Next]_vars

(***************************************************************************)
(* Properties.                                                             *)
(***************************************************************************)
\* An identifier: digits, one dot, digits.
IsId(t) ==
    \E k \in 2..Len(t) - 1 :
        /\ t[k] = "."
        /\ \A j \in (1..Len(t)) \ { k } : t[j] \in Digits

AbsPrefix == << "a","r","x","i","v",".","o","r","g","/","a","b","s","/" >>
PdfPrefix == << "a","r","x","i","v",".","o","r","g","/","p","d","f","/" >>

\* The positions of s where the literal text pre stands, followed by an identifier.
ShapeAt(pre, s) ==
    { i \in 1..Len(s) :
        /\ i + Len(pre) - 1 <= Len(s)
        /\ SubSeq(s, i, i + Len(pre) - 1) = pre
        /\ \E e \in 1..Len(s) : IsId(SubSeq(s, i + Len(pre), e)) }

\* The identifier that follows the leftmost such position: the longest one.
IdOfShape(pre, s) ==
    LET i    == CHOOSE a \in ShapeAt(pre, s) : \A b \in ShapeAt(pre, s) : a <= b
        ends == { e \in 1..Len(s) : IsId(SubSeq(s, i + Len(pre), e)) }
        e    == CHOOSE a \in ends : \A b \in ends : a >= b
    IN  SubSeq(s, i + Len(pre), e)

ExpectedId(s) ==
    IF ShapeAt(AbsPrefix, s) # {} THEN Some(IdOfShape(AbsPrefix, s))
    ELSE IF ShapeAt(PdfPrefix, s) # {} THEN Some(IdOfShape(PdfPrefix, s))
    ELSE IF IsId(s) THEN Some(s)
    ELSE None

\* C1: extract_arxiv_id returns the identifier of the first of the three
\* accepted shapes (arxiv.org/abs/<id>, arxiv.org/pdf/<id>, a bare <id>) the
\* input has, and None for every other input.
C1_IdOfShapeElseNone ==
    id_out.done => id_out.ret = ExpectedId(url)

FullObject == << "{", "F", "}" >>

\* The positions of text where a seven-key JSON object stands.
FullObjectAt(text) ==
    { i \in 1..Len(text) - 2 : SubSeq(text, i, i + 2) = FullObject }

\* C2: a reply that contains a well-formed JSON object with all seven keys,
\* whatever precedes or follows it, is returned as that decoded object.
C2_EmbeddedObjectDecoded ==
    ( /\ parse_out.done
      /\ Cardinality(FullObjectAt(response_text)) = 1
      /\ \A i \in 1..Len(response_text) : response_text[i] \notin { "P", "E" } )
    => parse_out.ret = Some(Members("F"))

FirstOpen(text) ==
    CHOOSE i \in 1..Len(text) :
        text[i] = "{" /\ \A j \in 1..i - 1 : text[j] # "{"
LastClose(text) ==
    CHOOSE i \in 1..Len(text) :
        text[i] = "}" /\ \A j \in i + 1..Len(text) : text[j] # "}"

\* A reply has a brace-delimited substring when a "}" follows a "{".
BraceDelimited(text) ==
    \E i \in 1..Len(text) : \E j \in i + 1..Len(text) :
        text[i] = "{" /\ text[j] = "}"

Undecodable(text) ==
    /\ BraceDelimited(text)
    /\ ~json_loads(SubSeq(text, FirstOpen(text), LastClose(text))).ok

\* C3: a reply with no brace-delimited substring, or whose substring from
\* the first "{" to the last "}" does not decode, comes back as
\* {"raw_analysis": <the whole reply>}, and no error is reported.
C3_FallbackIsWholeReply ==
    ( /\ parse_out.done
      /\ ~BraceDelimited(response_text) \/ Undecodable(response_text) )
    => /\ parse_out.ret = Some([k \in { "raw_analysis" } |-> response_text])
       /\ parse_out.msgs = << >>

\* C3 witness: an undecodable brace-delimited substring with text around it.
C3_Witness ==
    /\ parse_out.done
    /\ Undecodable(response_text)
    /\ FirstOpen(response_text) > 1
    /\ parse_out.ret = Some([k \in { "raw_analysis" } |-> response_text])

Headings ==
    << "Background of the Study", "Research Objectives and Hypothesis",
       "Methodology", "Results and Findings", "Discussion and Interpretation",
       "Contributions to the Field", "Achievements and Significance" >>

\* C4: display_analysis writes the seven headings in order, and under each
\* the record's value for its key, or "Not available" when the key is absent.
C4_SevenSectionsOrNotAvailable ==
    display_out.done =>
        /\ DOMAIN display_out.shown = 1..7
        /\ \A i \in 1..7 :
            /\ display_out.shown[i].subheader = Headings[i]
            /\ display_out.shown[i].write =
                 IF SevenKeys[i] \in DOMAIN parse_out.ret.val
                 THEN parse_out.ret.val[SevenKeys[i]]
                 ELSE NotAvailable

\* C4 witness: a record with some of the seven keys present and some absent.
C4_Witness ==
    /\ display_out.done
    /\ \E i \in 1..7 : display_out.shown[i].write = NotAvailable
    /\ \E i \in 1..7 : /\ SevenKeys[i] \in DOMAIN parse_out.ret.val
                       /\ display_out.shown[i].write = << "v", SevenKeys[i] >>

AllPagesOk(pdf) == pdf.valid /\ \A i \in DOMAIN pdf.pages : pdf.pages[i].ok

\* The length of the first n page texts, each with its newline.
RECURSIVE Offset(_, _)
Offset(pages, n) ==
    IF n = 0 THEN 0 ELSE Offset(pages, n - 1) + Len(pages[n].text) + 1

\* C5: the text returned for a PDF whose pages all extract is the page
\* texts in page order, each followed by one newline.
C5_PagesInOrderWithNewlines ==
    (text_out.done /\ AllPagesOk(pdf_in)) =>
        /\ ~text_out.ret.isNone
        /\ Len(text_out.ret.val) = Offset(pdf_in.pages, Len(pdf_in.pages))
        /\ \A i \in DOMAIN pdf_in.pages :
             LET from == Offset(pdf_in.pages, i - 1)
                 t    == pdf_in.pages[i].text
             IN  /\ SubSeq(text_out.ret.val, from + 1, from + Len(t)) = t
                 /\ text_out.ret.val[from + Len(t) + 1] = "\n"

\* C5 witness: three pages, not all alike, have been extracted.
C5_Witness ==
    /\ text_out.done
    /\ AllPagesOk(pdf_in)
    /\ Len(pdf_in.pages) = 3
    /\ pdf_in.pages[1].text # pdf_in.pages[2].text
    /\ pdf_in.pages[2].text # << >>
    /\ ~text_out.ret.isNone

CallsOf(fn) == { i \in DOMAIN run.calls : run.calls[i].fn = fn }

Shown(level) == { i \in DOMAIN run.msgs : run.msgs[i].level = level }

Unextractable(pdf) == ~pdf.valid \/ \E i \in DOMAIN pdf.pages : ~pdf.pages[i].ok

\* C6: when the stored document is not a PDF, or one of its pages fails,
\* the extraction reports its error and returns None, never the text of the
\* earlier pages, and the action requests no analysis.
C6_FailedExtractionIsTerminal ==
    ( /\ CallsOf("extract_text_from_pdf") # {}
      /\ Unextractable(session_state["pdf_file"].pdf) )
    => /\ \A i \in CallsOf("extract_text_from_pdf") : run.calls[i].ret = None
       /\ \E i \in Shown("error") :
            run.msgs[i].text = "Error extracting text from PDF"
       /\ CallsOf("analyze_paper_with_ai") = {}
       /\ ~run.stored

\* C6 witness: a page fails after an earlier page was extracted.
C6_Witness ==
    /\ CallsOf("extract_text_from_pdf") # {}
    /\ session_state["pdf_file"].pdf = TornPdf
    /\ run.calls[Len(run.calls)].ret = None

\* C7: a failed download, extraction or analysis shows exactly one error
\* message; the failing function is called once, no later stage is called
\* and nothing is stored in that run; the script still runs to its end and
\* the action can be taken again.
C7_FailureShownOnceAndTerminal ==
    \A i \in DOMAIN run.calls :
        run.calls[i].ret.isNone =>
            /\ Cardinality(Shown("error")) = 1
            /\ i = Len(run.calls)
            /\ CallsOf(run.calls[i].fn) = { i }
            /\ ~run.stored
            /\ run.results.isNone <=> "analysis" \notin DOMAIN session_state
            /\ run.calls[i].fn # "download_arxiv_pdf"
                 => "pdf_file" \in DOMAIN session_state

\* C7 witness: the analysis call failed after a successful extraction.
C7_Witness ==
    /\ Len(run.calls) = 2
    /\ run.calls[2].fn = "analyze_paper_with_ai"
    /\ run.calls[2].ret.isNone
    /\ ~run.calls[1].ret.isNone

\* C8: in a run where "Download and Extract" succeeds, the document in the
\* session at the end of the run is the downloaded PDF and the source is
\* "ArXiv ID: <id>", whatever happened before.
C8_DownloadedDocumentIsStored ==
    \A i \in CallsOf("download_arxiv_pdf") :
        ~run.calls[i].ret.isNone =>
            /\ session_state["pdf_file"] = run.calls[i].ret.val
            /\ session_state["source_info"] = ArxivSource(run.calls[i].ret.val.name)

\* C9: every export payload pairs the analysis with the source of the
\* document it was computed from and the time it was stored.
C9_ExportIsConsistentTriple ==
    ~run.results.isNone =>
        /\ run.results.val.export.source = analysis_of.source
        /\ run.results.val.export.timestamp = Some(analysis_of.time)

\* C10: an "Extract Insights" action with a stored document and an API key
\* ends either with the analysis and its timestamp stored and success
\* reported, or with an error message shown, and never with neither.
C10_ExtractEndsStoredOrError ==
    (run.clicked = "extract_btn" /\ api_key # << >>) =>
        \/ /\ run.stored
           /\ "analysis" \in DOMAIN session_state
           /\ "analysis_timestamp" \in DOMAIN session_state
           /\ \E i \in Shown("success") : run.msgs[i].text = "Analysis complete!"
           /\ Shown("error") = {}
        \/ /\ ~run.stored
           /\ Shown("error") # {}

====
